---- MODULE Spec2Model ----
(***************************************************************************)
(* Model of fancy-skinny-create2 (src/src/lib.rs): salt_bruteforce spawns  *)
(* nb_threads workers running find_matching_address over disjoint salt     *)
(* ranges; the workers report through an mpsc channel and a shared atomic  *)
(* stop flag.  Widths are scaled down: a U256 salt has SaltBits bits, an   *)
(* Address has AddrBits bits, and a "byte" of a FixedBytes is one bit.     *)
(***************************************************************************)
EXTENDS Integers, Sequences, FiniteSets, TLC

\* ------------------------------------------------------------------ bounds
SaltBits == 3
AddrBits == 2
MaxThreads == 2

\* ------------------------------------------------------------------ values
Pow2(n) == 2 ^ n

\* U256::MAX for the scaled-down salt width.
U256_MAX == Pow2(SaltBits) - 1

\* The values of the i32 argument nb_threads that the model enumerates.  An i32
\* is far below U256::MAX, so bruteforce_domain is never 0: MaxThreads stays
\* below U256_MAX here as well.
NbThreadsValues == -1 .. MaxThreads

\* Big-endian bit string of v on w positions (position 1 is the most significant).
ToBits(v, w) == [i \in 1 .. w |-> (v \div Pow2(w - i)) % 2]

\* Value of a big-endian bit string.
RECURSIVE FromBitsUpTo(_, _)
FromBitsUpTo(b, k) == IF k = 0 THEN 0 ELSE 2 * FromBitsUpTo(b, k - 1) + b[k]
FromBits(b) == FromBitsUpTo(b, Len(b))

\* Address: fixed-width bit strings.
AddressValues == [1 .. AddrBits -> {0, 1}]

\* FixedBytes<32>: fixed-width bit strings of the salt's width.
FixedBytesValues == [1 .. SaltBits -> {0, 1}]

\* Mutant of FixedBytesFrom: the little-endian representation.
FixedBytesFrom_LittleEndian(v) == [i \in 1 .. SaltBits |-> (v \div Pow2(i - 1)) % 2]

\* FixedBytes::from(U256): the big-endian representation of the salt.
FixedBytesFrom(salt) == ToBits(salt, SaltBits)

\* U256::from_be_bytes: the salt a FixedBytes stands for.
U256From(bytes) == FromBits(bytes)

\* Mutant of bit_and: a bitwise OR.
bit_and_Or(a, b) == [i \in 1 .. AddrBits |-> IF a[i] = 1 \/ b[i] = 1 THEN 1 ELSE 0]

\* Address::bit_and, Address::bit_xor, Address::is_zero.
bit_and(a, b) == [i \in 1 .. AddrBits |-> IF a[i] = 1 /\ b[i] = 1 THEN 1 ELSE 0]
bit_xor(a, b) == [i \in 1 .. AddrBits |-> IF a[i] # b[i] THEN 1 ELSE 0]
is_zero(a) == \A i \in 1 .. AddrBits : a[i] = 0

\* Mutant of IsMatch: the mask applied to the difference, (a XOR p) AND m.
IsMatch_MaskAfterXor(a, p, m) == is_zero(bit_and(bit_xor(a, p), m))

\* The test of line 41: address.bit_and(mask).bit_xor(pattern).is_zero().
IsMatch(a, p, m) == is_zero(bit_xor(bit_and(a, m), p))

\* Stand-in for keccak256 over a string of bits: a deterministic mixing fold.
RECURSIVE Absorb(_, _, _)
Absorb(h, bits, k) ==
    IF k > Len(bits) THEN h
    ELSE Absorb((h * 7 + 5 * bits[k] + 1) % 41, bits, k + 1)

\* Address::create2(sender, salt, init_code_hash): the low-order part of the
\* hash of 0xff ++ sender ++ salt ++ init_code_hash.  Deterministic in its inputs.
create2(snd, saltBytes, hash) ==
    ToBits(Absorb(7, snd \o saltBytes \o hash, 1) % Pow2(AddrBits), AddrBits)

\* ------------------------------------------------------------------ state
VARIABLES
    nb_threads,        \* argument of salt_bruteforce
    sender,            \* argument
    init_code_hash,    \* argument
    pattern,           \* argument
    mask,              \* argument
    pc,                \* position of the thread running salt_bruteforce
    bruteforce_domain, \* local of salt_bruteforce (line 90)
    stop_flag,         \* the shared AtomicBool (one location: its accesses are totally ordered)
    chan,              \* messages sent on the mpsc channel and not yet received
    tx_alive,          \* the Sender `tx` of salt_bruteforce has not been dropped
    rx_alive,          \* the Receiver `rx` has not been dropped
    threads,           \* the Vec of JoinHandles: tids in spawn order
    joined,            \* number of handles of `threads` already joined
    received,          \* the value bound to `result` at line 113
    ret,               \* the value salt_bruteforce returned
    wpc,               \* per worker: position inside find_matching_address
    salt_range,        \* per worker: the argument salt_range
    salt,              \* per worker: the local cursor `salt`
    address,           \* per worker: the local `address`
    feedback,          \* per worker: its clone of the Sender is alive
    sent,              \* history: every message passed to feedback.send, in order
    derived,           \* history, per worker: the salts passed to create2, in order
    late,              \* history, per worker: derivations made while stop_flag was set
    probe,             \* inputs of one evaluation of the match test
    verdict            \* outcome of that evaluation

vars == << nb_threads, sender, init_code_hash, pattern, mask, pc,
           bruteforce_domain, stop_flag, chan, tx_alive, rx_alive, threads,
           joined, received, ret, wpc, salt_range, salt, address, feedback,
           sent, derived, late, probe, verdict >>

inputs == << nb_threads, sender, init_code_hash, pattern, mask >>
workerVars == << wpc, salt_range, salt, address, feedback, derived, late >>
coordVars == << pc, bruteforce_domain, tx_alive, rx_alive, threads, joined,
                received, ret >>
matchVars == << probe, verdict >>

Tids == 0 .. MaxThreads - 1
NoAddress == << >>
NoValue == [kind |-> "None"]
NoProbe == [a |-> NoAddress, p |-> NoAddress, m |-> NoAddress]

\* The deployers and init-code hashes the model enumerates.
SenderValues == {ToBits(0, AddrBits)}
InitCodeHashValues == {ToBits(0, SaltBits), ToBits(1, SaltBits)}

\* State on entry to salt_bruteforce, for every combination of arguments.
Init ==
    /\ nb_threads \in NbThreadsValues
    /\ sender \in SenderValues
    /\ init_code_hash \in InitCodeHashValues
    /\ pattern \in AddressValues
    /\ mask \in AddressValues
    /\ pc = "entry"
    /\ bruteforce_domain = 0
    /\ stop_flag = FALSE
    /\ chan = << >>
    /\ tx_alive = FALSE
    /\ rx_alive = FALSE
    /\ threads = << >>
    /\ joined = 0
    /\ received = NoValue
    /\ ret = NoValue
    /\ wpc = [t \in Tids |-> "unspawned"]
    /\ salt_range = [t \in Tids |-> << 0, 0 >>]
    /\ salt = [t \in Tids |-> 0]
    /\ address = [t \in Tids |-> NoAddress]
    /\ feedback = [t \in Tids |-> FALSE]
    /\ sent = << >>
    /\ derived = [t \in Tids |-> << >>]
    /\ late = [t \in Tids |-> 0]
    /\ probe = NoProbe
    /\ verdict = "none"

\* ------------------------------------------------------------------ salt_bruteforce
\* Lines 90-93.  U256::from(nb_threads) panics on a negative value and the
\* division panics on zero; otherwise the locals are created.
Enter ==
    /\ pc = "entry"
    /\ IF nb_threads <= 0
       THEN /\ pc' = "panicked"
            /\ UNCHANGED << bruteforce_domain, tx_alive, rx_alive >>
       ELSE /\ bruteforce_domain' = U256_MAX \div nb_threads
            /\ tx_alive' = TRUE
            /\ rx_alive' = TRUE
            /\ pc' = "spawn"
    /\ UNCHANGED << inputs, stop_flag, chan, threads, joined, received, ret,
                    workerVars, sent, matchVars >>

\* Mutant of SaltRangeOf: the end of the range taken as inclusive.
SaltRangeOf_InclusiveEnd(domain, tid) ==
    << (domain * tid) % (U256_MAX + 1), (domain * (tid + 1) + 1) % (U256_MAX + 1) >>

\* Mutant of SaltRangeOf: the worker index counted from 1.
SaltRangeOf_FromOne(domain, tid) ==
    << (domain * (tid + 1)) % (U256_MAX + 1), (domain * (tid + 2)) % (U256_MAX + 1) >>

\* The range handed to worker tid (lines 100-103), in U256 arithmetic.
SaltRangeOf(domain, tid) ==
    << (domain * tid) % (U256_MAX + 1), (domain * (tid + 1)) % (U256_MAX + 1) >>

\* Lines 94-111: one iteration of the spawn loop; the loop ends when tid = nb_threads.
\* The new thread enters find_matching_address with its cursor at the start of
\* its range (line 38).
Spawn ==
    /\ pc = "spawn"
    /\ LET tid == Len(threads) IN
       IF tid < nb_threads
       THEN /\ threads' = Append(threads, tid)
            /\ feedback' = [feedback EXCEPT ![tid] = TRUE]
            /\ salt_range' = [salt_range EXCEPT ![tid] = SaltRangeOf(bruteforce_domain, tid)]
            /\ salt' = [salt EXCEPT ![tid] = SaltRangeOf(bruteforce_domain, tid)[1]]
            /\ wpc' = [wpc EXCEPT ![tid] = "loop"]
            /\ pc' = pc
       ELSE /\ pc' = "recv"
            /\ UNCHANGED << threads, feedback, salt_range, salt, wpc >>
    /\ UNCHANGED << inputs, bruteforce_domain, stop_flag, chan, tx_alive,
                    rx_alive, joined, received, ret, address, sent,
                    matchVars,
                    derived, late >>

\* Every Sender of the channel has been dropped.
Disconnected == ~tx_alive /\ \A t \in Tids : ~feedback[t]

\* Mutant of Recv: the newest message of the channel is taken, not the oldest.
Recv_TakesNewest ==
    /\ pc = "recv"
    /\ chan # << >> \/ Disconnected
    /\ IF chan # << >>
       THEN /\ received' = [kind |-> "Ok", address |-> chan[Len(chan)].address,
                            salt |-> chan[Len(chan)].salt]
            /\ chan' = SubSeq(chan, 1, Len(chan) - 1)
            /\ pc' = "store"
            /\ UNCHANGED << ret, tx_alive, rx_alive >>
       ELSE /\ ret' = [kind |-> "Err"]
            /\ pc' = "done"
            /\ tx_alive' = FALSE
            /\ rx_alive' = FALSE
            /\ UNCHANGED << received, chan >>
    /\ UNCHANGED << inputs, bruteforce_domain, stop_flag, threads, joined,
                    workerVars, sent, matchVars >>

\* Line 113: rx.recv() blocks while the channel is empty and some Sender lives;
\* it yields the oldest message, or Err once the channel is empty and disconnected.
Recv ==
    /\ pc = "recv"
    /\ chan # << >> \/ Disconnected
    /\ IF chan # << >>
       THEN /\ received' = [kind |-> "Ok", address |-> Head(chan).address,
                            salt |-> Head(chan).salt]
            /\ chan' = Tail(chan)
            /\ pc' = "store"
            /\ UNCHANGED << ret, tx_alive, rx_alive >>
       ELSE /\ ret' = [kind |-> "Err"]
            /\ pc' = "done"
            /\ tx_alive' = FALSE
            /\ rx_alive' = FALSE
            /\ UNCHANGED << received, chan >>
    /\ UNCHANGED << inputs, bruteforce_domain, stop_flag, threads, joined,
                    workerVars, sent, matchVars >>

\* Mutant of StoreFlag: the coordinator goes on to the joins without the store.
StoreFlag_Skipped ==
    /\ pc = "store"
    /\ pc' = "join"
    /\ UNCHANGED << inputs, bruteforce_domain, stop_flag, chan, tx_alive, rx_alive,
                    threads, joined, received, ret, workerVars, sent, matchVars >>

\* Line 114.
StoreFlag ==
    /\ pc = "store"
    /\ stop_flag' = TRUE
    /\ pc' = "join"
    /\ UNCHANGED << inputs, bruteforce_domain, chan, tx_alive, rx_alive, threads,
                    joined, received, ret, workerVars, sent, matchVars >>

\* Mutant of JoinReady: the handle is released without waiting for the thread.
JoinReady_NoWait(t) == TRUE

\* thread.join() returns once that thread has terminated.
JoinReady(t) == wpc[t] = "exited"

\* Lines 116-118: join the next handle of `threads`.
Join ==
    /\ pc = "join"
    /\ joined < Len(threads)
    /\ JoinReady(threads[joined + 1])
    /\ joined' = joined + 1
    /\ UNCHANGED << inputs, pc, bruteforce_domain, stop_flag, chan, tx_alive,
                    rx_alive, threads, received, ret, workerVars, sent,
                    matchVars >>

\* Line 120: return Ok(result); the locals tx and rx are dropped.
ReturnOk ==
    /\ pc = "join"
    /\ joined = Len(threads)
    /\ ret' = received
    /\ pc' = "done"
    /\ tx_alive' = FALSE
    /\ rx_alive' = FALSE
    /\ chan' = << >>
    /\ UNCHANGED << inputs, bruteforce_domain, stop_flag, threads, joined,
                    received, workerVars, sent, matchVars >>

\* ------------------------------------------------------------------ find_matching_address
\* Mutant of WLoop: the loop stops one salt before the end of the range.
WLoop_StopsOneEarly(t) ==
    /\ wpc[t] = "loop"
    /\ wpc' = [wpc EXCEPT ![t] =
                 IF ~stop_flag /\ salt[t] + 1 < salt_range[t][2] THEN "derive" ELSE "return"]
    /\ UNCHANGED << inputs, coordVars, stop_flag, chan, salt_range, salt,
                    address, feedback, sent, matchVars,
                    derived, late >>

\* Mutant of WLoop: the end of the range is tested with <=.
WLoop_InclusiveEnd(t) ==
    /\ wpc[t] = "loop"
    /\ wpc' = [wpc EXCEPT ![t] =
                 IF ~stop_flag /\ salt[t] <= salt_range[t][2] THEN "derive" ELSE "return"]
    /\ UNCHANGED << inputs, coordVars, stop_flag, chan, salt_range, salt,
                    address, feedback, sent, matchVars,
                    derived, late >>

\* Mutant of WLoop: at the end of its range the worker waits for the flag.
WLoop_WaitsForCancel(t) ==
    /\ wpc[t] = "loop"
    /\ stop_flag \/ salt[t] < salt_range[t][2]
    /\ wpc' = [wpc EXCEPT ![t] = IF ~stop_flag THEN "derive" ELSE "return"]
    /\ UNCHANGED << inputs, coordVars, stop_flag, chan, salt_range, salt,
                    address, feedback, sent, matchVars,
                    derived, late >>

\* Mutant of WLoop: the loop condition does not read the stop flag.
WLoop_IgnoresFlag(t) ==
    /\ wpc[t] = "loop"
    /\ wpc' = [wpc EXCEPT ![t] =
                 IF salt[t] < salt_range[t][2] THEN "derive" ELSE "return"]
    /\ UNCHANGED << inputs, coordVars, stop_flag, chan, salt_range, salt,
                    address, feedback, sent, matchVars,
                    derived, late >>

\* Line 39: the loop condition.
WLoop(t) ==
    /\ wpc[t] = "loop"
    /\ wpc' = [wpc EXCEPT ![t] =
                 IF ~stop_flag /\ salt[t] < salt_range[t][2] THEN "derive" ELSE "return"]
    /\ UNCHANGED << inputs, coordVars, stop_flag, chan, salt_range, salt,
                    address, feedback, sent, matchVars,
                    derived, late >>

\* Mutant of WDerive: the flag is stored as soon as the test succeeds, before the send.
WDerive_FlagBeforeSend(t) ==
    /\ wpc[t] = "derive"
    /\ LET a == create2(sender, FixedBytesFrom(salt[t]), init_code_hash) IN
       /\ address' = [address EXCEPT ![t] = a]
       /\ derived' = [derived EXCEPT ![t] = Append(derived[t], salt[t])]
       /\ late' = [late EXCEPT ![t] = IF stop_flag THEN late[t] + 1 ELSE late[t]]
       /\ IF IsMatch(a, pattern, mask)
          THEN /\ wpc' = [wpc EXCEPT ![t] = "send"]
               /\ salt' = salt
               /\ stop_flag' = TRUE
          ELSE /\ wpc' = [wpc EXCEPT ![t] = "loop"]
               /\ salt' = [salt EXCEPT ![t] = (salt[t] + 1) % (U256_MAX + 1)]
               /\ stop_flag' = stop_flag
    /\ UNCHANGED << inputs, coordVars, chan, salt_range, feedback,
                    sent, matchVars >>

\* Mutant of WDerive: the cursor advances by two after a failed test.
WDerive_StepTwo(t) ==
    /\ wpc[t] = "derive"
    /\ LET a == create2(sender, FixedBytesFrom(salt[t]), init_code_hash) IN
       /\ address' = [address EXCEPT ![t] = a]
       /\ derived' = [derived EXCEPT ![t] = Append(derived[t], salt[t])]
       /\ late' = [late EXCEPT ![t] = IF stop_flag THEN late[t] + 1 ELSE late[t]]
       /\ IF IsMatch(a, pattern, mask)
          THEN /\ wpc' = [wpc EXCEPT ![t] = "send"]
               /\ salt' = salt
          ELSE /\ wpc' = [wpc EXCEPT ![t] = "loop"]
               /\ salt' = [salt EXCEPT ![t] = (salt[t] + 2) % (U256_MAX + 1)]
    /\ UNCHANGED << inputs, coordVars, stop_flag, chan, salt_range, feedback,
                    sent, matchVars >>

\* Mutant of WDerive: the cursor is incremented before the test, in both branches.
WDerive_IncrementFirst(t) ==
    /\ wpc[t] = "derive"
    /\ LET a == create2(sender, FixedBytesFrom(salt[t]), init_code_hash) IN
       /\ address' = [address EXCEPT ![t] = a]
       /\ derived' = [derived EXCEPT ![t] = Append(derived[t], salt[t])]
       /\ late' = [late EXCEPT ![t] = IF stop_flag THEN late[t] + 1 ELSE late[t]]
       /\ salt' = [salt EXCEPT ![t] = (salt[t] + 1) % (U256_MAX + 1)]
       /\ wpc' = [wpc EXCEPT ![t] = IF IsMatch(a, pattern, mask) THEN "send" ELSE "loop"]
    /\ UNCHANGED << inputs, coordVars, stop_flag, chan, salt_range, feedback,
                    sent, matchVars >>

\* Lines 40-41 and 47: derive the address of the current salt and test it.
WDerive(t) ==
    /\ wpc[t] = "derive"
    /\ LET a == create2(sender, FixedBytesFrom(salt[t]), init_code_hash) IN
       /\ address' = [address EXCEPT ![t] = a]
       /\ derived' = [derived EXCEPT ![t] = Append(derived[t], salt[t])]
       /\ late' = [late EXCEPT ![t] = IF stop_flag THEN late[t] + 1 ELSE late[t]]
       /\ IF IsMatch(a, pattern, mask)
          THEN /\ wpc' = [wpc EXCEPT ![t] = "send"]
               /\ salt' = salt
          ELSE /\ wpc' = [wpc EXCEPT ![t] = "loop"]
               /\ salt' = [salt EXCEPT ![t] = (salt[t] + 1) % (U256_MAX + 1)]
    /\ UNCHANGED << inputs, coordVars, stop_flag, chan, salt_range, feedback,
                    sent, matchVars >>

\* Mutant of WSend: the scan goes on with the next salt after the send.
WSend_Continue(t) ==
    /\ wpc[t] = "send"
    /\ LET msg == [address |-> address[t], salt |-> FixedBytesFrom(salt[t])] IN
       /\ chan' = IF rx_alive THEN Append(chan, msg) ELSE chan
       /\ sent' = Append(sent, [address |-> msg.address, salt |-> msg.salt, by |-> t])
    /\ salt' = [salt EXCEPT ![t] = (salt[t] + 1) % (U256_MAX + 1)]
    /\ wpc' = [wpc EXCEPT ![t] = "loop"]
    /\ UNCHANGED << inputs, coordVars, stop_flag, salt_range, address,
                    feedback, matchVars, derived, late >>

\* Line 42: feedback.send; the message is lost if the Receiver is gone.
WSend(t) ==
    /\ wpc[t] = "send"
    /\ LET msg == [address |-> address[t], salt |-> FixedBytesFrom(salt[t])] IN
       /\ chan' = IF rx_alive THEN Append(chan, msg) ELSE chan
       /\ sent' = Append(sent, [address |-> msg.address, salt |-> msg.salt, by |-> t])
    /\ wpc' = [wpc EXCEPT ![t] = "flag"]
    /\ UNCHANGED << inputs, coordVars, stop_flag, salt_range, salt, address,
                    feedback, matchVars,
                    derived, late >>

\* Mutant of WStoreFlag: the store inverts the flag.
WStoreFlag_Toggles(t) ==
    /\ wpc[t] = "flag"
    /\ stop_flag' = ~stop_flag
    /\ wpc' = [wpc EXCEPT ![t] = "return"]
    /\ UNCHANGED << inputs, coordVars, chan, salt_range, salt, address,
                    feedback, sent, matchVars,
                    derived, late >>

\* Lines 43-44.
WStoreFlag(t) ==
    /\ wpc[t] = "flag"
    /\ stop_flag' = TRUE
    /\ wpc' = [wpc EXCEPT ![t] = "return"]
    /\ UNCHANGED << inputs, coordVars, chan, salt_range, salt, address,
                    feedback, sent, matchVars,
                    derived, late >>

\* Line 50: the function returns, its Sender is dropped and the thread ends.
WReturn(t) ==
    /\ wpc[t] = "return"
    /\ feedback' = [feedback EXCEPT ![t] = FALSE]
    /\ wpc' = [wpc EXCEPT ![t] = "exited"]
    /\ UNCHANGED << inputs, coordVars, stop_flag, chan, salt_range, salt,
                    address, sent, matchVars,
                    derived, late >>

Worker(t) ==
    \/ WLoop(t)
    \/ WDerive(t)
    \/ WSend(t)
    \/ WStoreFlag(t)
    \/ WReturn(t)

Coordinator ==
    \/ Enter
    \/ Spawn
    \/ Recv
    \/ StoreFlag
    \/ Join
    \/ ReturnOk

Next ==
    \/ Coordinator
    \/ \E t \in Tids : Worker(t)

Spec == Init /\ [][Next]_vars

\* The threads are OS threads: each one that can take a step eventually does.
FairSpec ==
    /\ Spec
    /\ WF_vars(Coordinator)
    /\ \A t \in Tids : WF_vars(Worker(t))

\* ------------------------------------------------------------------ the partitioning alone
\* Lines 90-111 on their own: the ranges are a function of nb_threads only and
\* are written by the spawn loop alone, so they are the same whatever the
\* workers do meanwhile.
NextPartition ==
    \/ Enter
    \/ Spawn

SpecPartition == Init /\ [][NextPartition]_vars

\* ------------------------------------------------------------------ the match test alone
\* One evaluation of the test of line 41 on an arbitrary address, pattern and mask.
InitMatch ==
    /\ probe \in [a : AddressValues, p : AddressValues, m : AddressValues]
    /\ verdict = "none"
    /\ nb_threads = 0
    /\ sender = NoAddress
    /\ init_code_hash = NoAddress
    /\ pattern = NoAddress
    /\ mask = NoAddress
    /\ pc = "idle"
    /\ bruteforce_domain = 0
    /\ stop_flag = FALSE
    /\ chan = << >>
    /\ tx_alive = FALSE
    /\ rx_alive = FALSE
    /\ threads = << >>
    /\ joined = 0
    /\ received = NoValue
    /\ ret = NoValue
    /\ wpc = [t \in Tids |-> "unspawned"]
    /\ salt_range = [t \in Tids |-> << 0, 0 >>]
    /\ salt = [t \in Tids |-> 0]
    /\ address = [t \in Tids |-> NoAddress]
    /\ feedback = [t \in Tids |-> FALSE]
    /\ sent = << >>
    /\ derived = [t \in Tids |-> << >>]
    /\ late = [t \in Tids |-> 0]

Evaluate ==
    /\ verdict = "none"
    /\ verdict' = IF IsMatch(probe.a, probe.p, probe.m) THEN "match" ELSE "nomatch"
    /\ UNCHANGED << inputs, coordVars, stop_flag, chan, workerVars, sent, probe >>

NextMatch == Evaluate

SpecMatch == InitMatch /\ [][NextMatch]_vars

\* ------------------------------------------------------------------ claims
Positions == 1 .. AddrBits
Salts == 0 .. U256_MAX
Spawned == {threads[k] : k \in 1 .. Len(threads)}
InRange(s, r) == r[1] <= s /\ s < r[2]
AllSpawned == nb_threads > 0 /\ Len(threads) = nb_threads
Covering(s) == {t \in Spawned : InRange(s, salt_range[t])}
SentBy(t) == \E k \in 1 .. Len(sent) : sent[k].salt = FixedBytesFrom(salt[t])

MatchingSalts ==
    {s \in Salts :
        IsMatch(create2(sender, FixedBytesFrom(s), init_code_hash), pattern, mask)}
UniqueMatch == nb_threads > 0 /\ Cardinality(MatchingSalts) = 1
ExpectedOk ==
    IF MatchingSalts = {} THEN NoValue
    ELSE LET s == CHOOSE x \in MatchingSalts : TRUE IN
         [kind |-> "Ok",
          address |-> create2(sender, FixedBytesFrom(s), init_code_hash),
          salt |-> FixedBytesFrom(s)]
ZeroAddress == [i \in Positions |-> 0]
\* Some thread can take a step: ENABLED Next, with the questions that need no
\* derivation asked first.
CanProceed ==
    \/ ENABLED Coordinator
    \/ \E t \in Tids : wpc[t] \in {"loop", "send", "flag", "return"} /\ ENABLED Worker(t)
    \/ ENABLED Next
AllExhausted ==
    /\ AllSpawned
    /\ sent = << >>
    /\ \A t \in Spawned : wpc[t] = "exited" /\ salt[t] = salt_range[t][2]

\* C1: once every worker has exhausted its range without a match, the call
\* eventually returns Err.
C1_Claim == AllExhausted ~> (pc = "done" /\ ret.kind = "Err")

\* C3 as stated: a call with n > 0 workers and an all-zero mask that has
\* returned has returned Ok with salt 0, whatever the pattern.
C3_Original ==
    (pc = "done" /\ nb_threads > 0 /\ mask = ZeroAddress) =>
        (ret.kind = "Ok" /\ U256From(ret.salt) = 0)

\* C3 amended: a call with n > 0 workers, an all-zero mask and an all-zero
\* pattern returns Ok with the first salt of the range of one of the workers
\* (domainSize * i; salt 0 when n = 1): until it has returned some thread can
\* always take a step (every step advances a thread, so the call cannot block),
\* and the value it returns is such a salt.
C3_ZeroMaskReturnsARangeStart ==
    (nb_threads > 0 /\ mask = ZeroAddress /\ pattern = ZeroAddress) =>
        IF pc = "done"
        THEN /\ ret.kind = "Ok"
             /\ \E i \in 0 .. nb_threads - 1 :
                   U256From(ret.salt) = (U256_MAX \div nb_threads) * i
        ELSE ENABLED Next

\* The call returned the first salt of the second worker's range.
C3_Witness ==
    /\ pc = "done"
    /\ nb_threads = 2
    /\ mask = ZeroAddress
    /\ pattern = ZeroAddress
    /\ ret.kind = "Ok"
    /\ U256From(ret.salt) = salt_range[1][1]
    /\ salt_range[1][1] > 0

\* C4 as stated: when exactly one salt of the domain produces a matching
\* address, the call returns that (address, salt) pair, for every worker count.
C4_Original == UniqueMatch => <>(pc = "done" /\ ret = ExpectedOk)

\* C4 amended: when exactly one salt of the domain produces a matching address
\* and that salt is below domainSize * n (inside a worker's range), the call
\* returns that (address, salt) pair, for every worker count: until it has
\* returned some thread can always take a step, and the value it returns is
\* that pair.
C4_UniqueSearchedMatchReturned ==
    LET M == MatchingSalts
        Searched ==
            /\ nb_threads > 0
            /\ Cardinality(M) = 1
            /\ \A s \in M : s < (U256_MAX \div nb_threads) * nb_threads
        Expected ==
            LET s == CHOOSE x \in M : TRUE IN
            [kind |-> "Ok",
             address |-> create2(sender, FixedBytesFrom(s), init_code_hash),
             salt |-> FixedBytesFrom(s)]
    IN  /\ pc = "done" => (Searched => ret = Expected)
        /\ (pc # "done" /\ ~CanProceed) => ~Searched

\* The unique match was found by the second of two workers.
C4_Witness ==
    /\ pc = "done"
    /\ nb_threads = 2
    /\ UniqueMatch
    /\ ret = ExpectedOk
    /\ InRange(U256From(ret.salt), salt_range[1])

\* C2: a returned Ok(address, salt) has address = create2(sender, salt,
\* init_code_hash), (address AND mask) XOR pattern all-zero, and salt inside
\* the range of one of the workers.
C2_OkIsDerivedMatchInARange ==
    (pc = "done" /\ ret.kind = "Ok") =>
        /\ ret.address = create2(sender, ret.salt, init_code_hash)
        /\ \A i \in Positions :
              (IF ret.address[i] = 1 /\ mask[i] = 1 THEN 1 ELSE 0) = pattern[i]
        /\ \E t \in Spawned : InRange(U256From(ret.salt), salt_range[t])

\* Two workers, and the returned salt was reached by the second one after
\* scanning past the start of its range, under a non-zero mask.
C2_Witness ==
    /\ pc = "done"
    /\ ret.kind = "Ok"
    /\ nb_threads = 2
    /\ \E i \in Positions : mask[i] = 1
    /\ InRange(U256From(ret.salt), salt_range[1])
    /\ U256From(ret.salt) > salt_range[1][1]

\* C7: the ranges handed to the workers are [domainSize * i, domainSize * (i + 1))
\* with domainSize = floor(maxSalt / n); each has start <= end, they are pairwise
\* disjoint and their starts increase with the worker index.
C7_RangesDisjointIncreasing ==
    \A t1 \in Spawned :
        /\ salt_range[t1] = << (U256_MAX \div nb_threads) * t1,
                               (U256_MAX \div nb_threads) * (t1 + 1) >>
        /\ salt_range[t1][1] <= salt_range[t1][2]
        /\ \A t2 \in Spawned :
              t1 < t2 =>
                /\ salt_range[t1][1] < salt_range[t2][1]
                /\ salt_range[t1][2] <= salt_range[t2][1]

\* Every worker of a call with the largest worker count has its range.
C7_Witness ==
    /\ AllSpawned
    /\ nb_threads = MaxThreads
    /\ \A t \in Spawned : salt_range[t][1] < salt_range[t][2]

\* C8 as stated: the salts of [0, maxSalt] in no worker's range are a trailing
\* block of at most n - 1 values, and every other salt is in exactly one range.
C8_Original ==
    AllSpawned =>
        LET covers == [s \in Salts |-> Cardinality(Covering(s))]
            tail == {s \in Salts : covers[s] = 0}
        IN  /\ \A s \in tail : s = U256_MAX \/ s + 1 \in tail
            /\ Cardinality(tail) <= nb_threads - 1
            /\ \A s \in Salts \ tail : covers[s] = 1

\* C8 amended: the salts of [0, maxSalt] in no worker's range are a trailing
\* block of at most n values, and every other salt is in exactly one range.
C8_UnsearchedTailAtMostN ==
    AllSpawned =>
        LET covers == [s \in Salts |-> Cardinality(Covering(s))]
            tail == {s \in Salts : covers[s] = 0}
        IN  /\ \A s \in tail : s = U256_MAX \/ s + 1 \in tail
            /\ Cardinality(tail) <= nb_threads
            /\ \A s \in Salts \ tail : covers[s] = 1

\* Two workers that leave exactly two salts of the domain unsearched.
C8_Witness ==
    /\ AllSpawned
    /\ nb_threads = 2
    /\ Cardinality({s \in Salts : Covering(s) = {}}) = nb_threads

\* C9: a call with nb_threads <= 0 ends by returning an error value, without
\* faulting and without having spawned a worker.
C9_Claim ==
    (nb_threads <= 0 /\ pc # "entry") =>
        /\ pc = "done"
        /\ ret.kind = "Err"
        /\ threads = << >>

\* C10: when salt_bruteforce has returned, every worker it spawned has terminated.
C10_WorkersTerminatedAtReturn ==
    pc = "done" => \A t \in Spawned : wpc[t] = "exited"

\* The call has returned and some worker was stopped by the flag before the
\* end of its range, without having sent anything.
C10_Witness ==
    /\ pc = "done"
    /\ \E t \in Spawned :
          /\ wpc[t] = "exited"
          /\ salt[t] < salt_range[t][2]
          /\ ~SentBy(t)

\* C5 as stated: the test is true if and only if the address and the pattern
\* agree on every position where the mask is 1, whatever the other bits are.
C5_Original ==
    verdict # "none" =>
        ((verdict = "match") <=>
            \A i \in Positions : probe.m[i] = 1 => probe.a[i] = probe.p[i])

\* C5 amended: the test is true if and only if the address and the pattern
\* agree on every position where the mask is 1 and the pattern is 0 on every
\* position where the mask is 0; the address bits where the mask is 0 are free.
C5_MatchIffAgreeAndPatternInsideMask ==
    verdict # "none" =>
        ((verdict = "match") <=>
            /\ \A i \in Positions : probe.m[i] = 1 => probe.a[i] = probe.p[i]
            /\ \A i \in Positions : probe.m[i] = 0 => probe.p[i] = 0)

\* A match under a partial mask, with an address bit set outside the mask.
C5_Witness ==
    /\ verdict = "match"
    /\ \E i \in Positions : probe.m[i] = 1 /\ probe.p[i] = 1
    /\ \E i \in Positions : probe.m[i] = 0 /\ probe.a[i] = 1

\* C6 as stated: with an all-zero mask the test is true for every address and
\* every pattern.
C6_Original ==
    (verdict # "none" /\ \A i \in Positions : probe.m[i] = 0) => verdict = "match"

\* C6 amended: with an all-zero mask the test is true for every address exactly
\* when the pattern is all-zero as well, and false for every other pattern.
C6_ZeroMaskMatchesIffZeroPattern ==
    (verdict # "none" /\ \A i \in Positions : probe.m[i] = 0) =>
        ((verdict = "match") <=> \A i \in Positions : probe.p[i] = 0)

\* An all-zero mask and pattern evaluated on a non-zero address.
C6_Witness ==
    /\ verdict = "match"
    /\ \A i \in Positions : probe.m[i] = 0 /\ probe.p[i] = 0
    /\ \E i \in Positions : probe.a[i] = 1

\* ------------------------------------------------------------------ claims on the workers
HasSent(t) == \E k \in 1 .. Len(sent) : sent[k].by = t
SentCount(t) == Cardinality({k \in 1 .. Len(sent) : sent[k].by = t})
MatchAt(s) == IsMatch(create2(sender, FixedBytesFrom(s), init_code_hash), pattern, mask)
\* The cursor of a worker that has sent is a matching salt: it is tried first.
RangeHasMatch(t) ==
    \/ InRange(salt[t], salt_range[t]) /\ MatchAt(salt[t])
    \/ \E s \in salt_range[t][1] .. salt_range[t][2] - 1 : MatchAt(s)
Finished(t) == wpc[t] \in {"return", "exited"}
CanStep(t) ==
    /\ wpc[t] = "loop" => ENABLED WLoop(t)
    /\ wpc[t] = "send" => ENABLED WSend(t)
    /\ wpc[t] = "flag" => ENABLED WStoreFlag(t)
    /\ wpc[t] = "return" => ENABLED WReturn(t)

\* C11 as stated: a worker whose range holds a matching salt has sent a match
\* by the time its scan has ended.
C11_Original ==
    \A t \in Spawned : (wpc[t] = "exited" /\ RangeHasMatch(t)) => HasSent(t)

\* C11 amended: a worker whose range holds a matching salt sends a match unless
\* the stop flag is set before it gets there: at the loop test, the send, the
\* store and the return its next step is always possible, it makes at most as
\* many derivations as its range has salts, each one for the cursor's salt and
\* followed by the send exactly when the derived address matches, and it
\* leaves the loop without a send only when the flag is set or its range holds
\* no match.
C11_ScanSendsUnlessStopped ==
    /\ [](\A t \in Spawned :
            /\ Len(derived[t]) <= salt_range[t][2] - salt_range[t][1]
            /\ CanStep(t)
            /\ (Finished(t) /\ ~stop_flag /\ ~HasSent(t)) =>
                  Len(derived[t]) = salt_range[t][2] - salt_range[t][1])
    /\ [][\A t \in Spawned :
            /\ derived'[t] # derived[t] =>
                  /\ derived'[t] = Append(derived[t], salt[t])
                  /\ (wpc'[t] = "send") = IsMatch(address'[t], pattern, mask)
            /\ (wpc[t] = "loop" /\ wpc'[t] = "return" /\ ~stop_flag) =>
                  ~RangeHasMatch(t)]_vars

\* A worker has ended its scan after sending the match it reached past the
\* start of its range.
C11_Witness ==
    \E t \in Spawned :
        /\ wpc[t] = "exited"
        /\ HasSent(t)
        /\ Len(derived[t]) >= 2

\* C12: one call of find_matching_address sends at most one message; once it
\* has sent, it only stores the stop flag and returns, and the salt it sent is
\* the last one it derived.
C12_OneSendThenFlagAndExit ==
    \A t \in Spawned :
        /\ SentCount(t) <= 1
        /\ HasSent(t) =>
              /\ wpc[t] \in {"flag", "return", "exited"}
              /\ Finished(t) => stop_flag
              /\ derived[t] # << >>
              /\ \A k \in 1 .. Len(sent) :
                    sent[k].by = t =>
                      /\ sent[k].salt = FixedBytesFrom(derived[t][Len(derived[t])])
                      /\ Len(derived[t]) = U256From(sent[k].salt) - salt_range[t][1] + 1

\* A worker has sent a match found after a non-matching salt, stored the flag
\* and ended.
C12_Witness ==
    \E t \in Spawned :
        /\ wpc[t] = "exited"
        /\ SentCount(t) = 1
        /\ Len(derived[t]) >= 2
        /\ Len(sent) = 1

\* C13 as stated: in one call at most one message is ever sent on the channel.
C13_Original == Len(sent) <= 1

\* C13 amended: in one call every worker sends at most one message, so at most
\* n are sent; the coordinator receives and returns only the first one sent.
C13_OneSendPerWorkerFirstReturned ==
    /\ Len(sent) <= Len(threads)
    /\ \A t \in Spawned : SentCount(t) <= 1
    /\ received.kind = "Ok" =>
          (received.address = sent[1].address /\ received.salt = sent[1].salt)
    /\ ret.kind = "Ok" => (ret.address = sent[1].address /\ ret.salt = sent[1].salt)

\* Two workers have each sent a match and the call has returned the first one.
C13_Witness ==
    /\ pc = "done"
    /\ Len(sent) = 2
    /\ sent[1].by # sent[2].by
    /\ ret.kind = "Ok"
    /\ ret.salt = sent[1].salt

\* C14: once the stop flag is set, a worker makes at most one more derivation
\* (the one whose loop test it had already passed), and a worker that tests
\* the loop condition with the flag set leaves the loop.
C14_AtMostOneLateDerivation ==
    /\ [](\A t \in Tids : late[t] <= 1)
    /\ [][\A t \in Tids :
            (stop_flag /\ wpc[t] = "loop" /\ wpc'[t] # "loop") =>
                (wpc'[t] = "return" /\ derived'[t] = derived[t])]_vars

\* A worker made one derivation after the flag was set and has ended without
\* sending.
C14_Witness ==
    \E t \in Spawned :
        /\ late[t] = 1
        /\ wpc[t] = "exited"
        /\ ~HasSent(t)

\* Some worker's range holds a matching salt.
Searchable ==
    /\ nb_threads > 0
    /\ \E s \in 0 .. (U256_MAX \div nb_threads) * nb_threads - 1 : MatchAt(s)

\* C15: when some worker's range holds a matching salt the call runs, drains
\* and ends with Ok: the coordinator only moves recv -> store -> join -> done,
\* the flag is set while it joins, it cannot block before it has returned (some
\* thread can always take a step), and when it has returned every worker is
\* joined and the value is Ok with the first message received.
C15_RunDrainDone ==
    /\ [](/\ pc = "join" => (stop_flag /\ received.kind = "Ok")
          /\ pc = "done" =>
                /\ Searchable => ret.kind = "Ok"
                /\ ret.kind = "Ok" =>
                      /\ stop_flag
                      /\ ret = received
                      /\ ret.salt = sent[1].salt
                      /\ joined = nb_threads
                      /\ \A t \in Spawned : wpc[t] = "exited"
          /\ (pc # "done" /\ ~CanProceed) => ~Searchable)
    /\ [][pc' # pc =>
            << pc, pc' >> \in {<< "entry", "spawn" >>, << "entry", "panicked" >>,
                               << "spawn", "recv" >>, << "recv", "store" >>,
                               << "recv", "done" >>, << "store", "join" >>,
                               << "join", "done" >>}]_vars

\* The call has returned the match of the second worker while the first one
\* was stopped after a late derivation.
C15_Witness ==
    /\ pc = "done"
    /\ ret.kind = "Ok"
    /\ nb_threads = 2
    /\ Len(sent) = 1
    /\ sent[1].by = 1
    /\ late[0] = 1

\* C16: a worker whose range holds no matching salt terminates at the end of
\* its range without a send and without a store: every step it takes leaves
\* the flag and the channel as they are and never leads to the send or the
\* store, it leaves the loop as soon as its cursor is at the end of the range
\* whatever the flag is, its step at the loop test and at the return is always
\* possible, and a worker that returned with the flag still false has derived
\* its whole range.
C16_NoMatchWorkerEndsSilently ==
    /\ [](\A t \in Spawned :
            /\ CanStep(t)
            /\ (Finished(t) /\ ~stop_flag) =>
                  /\ salt[t] = salt_range[t][2]
                  /\ Len(derived[t]) = salt_range[t][2] - salt_range[t][1])
    /\ [][\A t \in Spawned :
            \/ wpc'[t] = wpc[t]
            \/ /\ stop_flag' = stop_flag
               /\ sent' = sent
               /\ chan' = chan
               /\ wpc'[t] \notin {"send", "flag"}
               /\ (wpc[t] = "loop" /\ salt[t] = salt_range[t][2]) => wpc'[t] = "return"
            \/ RangeHasMatch(t)]_vars

\* A worker has returned at the end of a range of at least two salts without a
\* match, while the flag was never set.
C16_Witness ==
    \E t \in Spawned :
        /\ wpc[t] = "exited"
        /\ ~stop_flag
        /\ ~HasSent(t)
        /\ Len(derived[t]) >= 2
        /\ salt[t] = salt_range[t][2]
        /\ ~RangeHasMatch(t)

\* C17: the stop flag is false until the first store and no step sets it back
\* to false.
C17_StopFlagMonotonic ==
    /\ [](pc \in {"entry", "spawn"} /\ sent = << >> => ~stop_flag)
    /\ [][stop_flag => stop_flag']_vars

\* Both a worker and the coordinator have stored the flag.
C17_Witness ==
    /\ stop_flag
    /\ pc \in {"join", "done"}
    /\ \E t \in Spawned : HasSent(t) /\ Finished(t)

\* C18: the flag is true only after a send: a worker about to store has sent,
\* the coordinator about to store has received. Hence the flag is set, a worker
\* derives after a store or returns before the end of its range only when the
\* first message sent carries a matching salt of its sender's range: when no
\* range holds a matching salt every worker that returned has derived its whole
\* range.
C18_FlagOnlyAfterSend ==
    /\ [](/\ stop_flag => sent # << >>
          /\ \/ /\ ~stop_flag
                /\ \A t \in Spawned :
                      /\ late[t] = 0
                      /\ Finished(t) =>
                            Len(derived[t]) = salt_range[t][2] - salt_range[t][1]
             \/ /\ sent # << >>
                /\ InRange(U256From(sent[1].salt), salt_range[sent[1].by])
                /\ MatchAt(U256From(sent[1].salt)))
    /\ [][stop_flag' # stop_flag \/ pc = "store" \/ (\E t \in Spawned : wpc[t] = "flag") =>
            /\ sent # << >>
            /\ \/ pc = "store" /\ pc' = "join" /\ received.kind = "Ok"
               \/ \E t \in Spawned :
                     wpc[t] = "flag" /\ wpc'[t] = "return" /\ HasSent(t)
               \/ stop_flag' = stop_flag]_vars

\* A worker has stored the flag after its send, before the coordinator has
\* taken the message.
C18_Witness ==
    /\ stop_flag
    /\ pc = "recv"
    /\ Len(sent) = 1
    /\ Len(chan) = 1
    /\ wpc[sent[1].by] = "return"

\* C19: the cursor of a worker stays within its range, end included; every
\* derivation is for the cursor's salt, which lies in the worker's own range
\* and was derived before by no worker.
C19_OwnRangeNoSaltTwice ==
    /\ [](\A t \in Spawned :
            salt_range[t][1] <= salt[t] /\ salt[t] <= salt_range[t][2])
    /\ [][\A t \in Spawned :
            derived'[t] # derived[t] =>
                /\ derived'[t] = Append(derived[t], salt[t])
                /\ InRange(salt[t], salt_range[t])
                /\ \A u \in Spawned : \A k \in 1 .. Len(derived[u]) :
                      derived[u][k] # salt[t]]_vars

\* Two workers have each derived at least two salts.
C19_Witness ==
    /\ Cardinality(Spawned) = 2
    /\ \A t \in Spawned : Len(derived[t]) >= 2 /\ wpc[t] = "exited"

\* C20: when a worker sends, the salt it sends is in its range, its address
\* matches, and no smaller salt of the range gives a matching address.
C20_SendsSmallestMatchOfRange ==
    [][sent' # sent =>
         LET e == sent'[Len(sent')]
             s == U256From(e.salt)
             r == salt_range[e.by]
         IN  /\ sent' = Append(sent, e)
             /\ InRange(s, r)
             /\ e.address = create2(sender, e.salt, init_code_hash)
             /\ IsMatch(e.address, pattern, mask)
             /\ \A x \in r[1] .. s - 1 : ~MatchAt(x)]_vars

\* A worker has sent the third or a later salt of its range.
C20_Witness ==
    \E k \in 1 .. Len(sent) :
        /\ U256From(sent[k].salt) >= salt_range[sent[k].by][1] + 2
        /\ wpc[sent[k].by] = "flag"
====
